---- MODULE Spec2Model ----
(***************************************************************************)
(* AIRacing: a user-drawn race track (class Track), three cars driven by   *)
(* rule-based steering policies (class Car, simple_logic, advanced_logic), *)
(* and the boundary-test variant of Track with its overlap repair.         *)
(*                                                                         *)
(* Numbers.  Python floats are modelled in fixed point:                    *)
(*   - a length or coordinate is an integer count of 1/Unit pixel;         *)
(*   - an angle or a steering value is an integer count of 1/SteerDiv      *)
(*     degree (advanced_logic steers in multiples of 0.02 = 1/50 degree).  *)
(***************************************************************************)
EXTENDS Integers, Sequences, FiniteSets, TLC

VARIABLES
    variant,        \* which program runs: "main" or "boundary_test"
    centerline,     \* Track.centerline: sequence of points <<x, y>>
    inner_boundary, \* Track.inner_boundary
    outer_boundary, \* Track.outer_boundary
    finalized,      \* Track.finalized
    track_polygon,  \* Track.track_polygon (NoPolygon before finalize)
    track_mask,     \* Track.track_mask (NoMask before finalize)
    running,        \* main's loop flag, cleared by a QUIT event
    exc,            \* the exception that ended the program ("none" while alive)
    op,             \* the last Track call: its name, its caller, the state it saw
    ndirect,        \* number of direct calls of Track methods made so far
    cars,           \* main's list of cars (empty until the track is finalized)
    turn,           \* the index of the car "for car in cars" updates next
    frame,          \* the number of frames main's loop has completed
    probe,          \* the last Car.update(): its car, the pose it sensed from,
                    \* the point it moved to, whether it detected a collision
    raw_inner,      \* repair spec: calculate_boundaries' local list inner
    raw_outer,      \* repair spec: its local list outer
    adjusted_inner, \* repair spec: its local list adjusted_inner
    adjusted_outer, \* repair spec: its local list adjusted_outer
    ai_model,       \* policy spec: which policy was called ("none" before)
    ai_input,       \* policy spec: the 5 sensor readings handed to it
    ai_output       \* policy spec: the value it returned, in 1/SteerDiv degree

\* ------------------------------------------------------------------ numbers

\* Fixed-point resolution: coordinates count 1/Unit pixel.
Unit == 10 * 10

Px(n) == n * Unit

\* Python's None where a mask is expected, and where a list of points is.
NoMask == [none |-> TRUE]

NoPolygon == <<>>

Abs(n) == IF n < 0 THEN -n ELSE n

\* a / b rounded to the nearest integer (b > 0); \div rounds down.
RoundDiv(a, b) == (2 * a + b) \div (2 * b)

\* A local variable: F applied to the value of e, with e evaluated once (a
\* name bound over a set holds a value, where a LET name or an argument stands
\* for its expression).
Bind(e, F(_)) == CHOOSE y \in {F(x) : x \in {e}} : TRUE

\* Newton's iteration for the integer square root of n, from a guess g that
\* is not below it.
RECURSIVE SqrtIter(_, _)
SqrtIter(n, g) ==
    Bind((g + n \div g) \div 2, LAMBDA h : IF h >= g THEN g ELSE SqrtIter(n, h))

\* The square root of n > 0 rounded to the nearest integer, from a guess that
\* is not below it.
Sqrt(n, guess) ==
    Bind(SqrtIter(n, guess), LAMBDA r : IF n - r * r > r THEN r + 1 ELSE r)

\* np.linalg.norm of the vector <<dx, dy>>: the square root of dx^2 + dy^2,
\* rounded to the nearest integer (|dx| + |dy| is not below the root).
Norm(v) ==
    Bind(v[1] * v[1] + v[2] * v[2],
         LAMBDA n : IF n = 0 THEN 0 ELSE Sqrt(n, Abs(v[1]) + Abs(v[2])))

Add(p, q) == <<p[1] + q[1], p[2] + q[2]>>
Sub(p, q) == <<p[1] - q[1], p[2] - q[2]>>

\* advanced_logic multiplies by 0.02: one degree is SteerDiv steering units.
SteerDiv == 50

Deg(n) == n * SteerDiv

\* -------------------------------------------------------------------- Track

\* TRACK_WIDTH, in pixels; Track(TRACK_WIDTH).width in fixed point.
TRACK_WIDTH == 80

width == Px(TRACK_WIDTH)

\* _spline_smooth's num_points.
num_points == 200

\* splprep's default spline degree k: it raises TypeError("m > k must hold")
\* unless it is given more than k points.
SplineDegree == 3

\* Track.add_point(point): the new centerline.
add_point(cl, point) ==
    IF cl = <<>> \/ point # cl[Len(cl)] THEN Append(cl, point) ELSE cl

\* Whether splprep accepts the points.
spline_fits(points) == Len(points) > SplineDegree

\* Track._spline_smooth(points): num_points samples at u = linspace(0, 1,
\* num_points).  The fitted curve is abstracted by the polyline through the
\* points, parametrised uniformly by index; the count of samples, the end
\* points and the dependence on every input point are those of the code.
spline_smooth(points) ==
    LET m == Len(points)
        last == num_points - 1
    IN  [k \in 1..num_points |->
            LET num == (k - 1) * (m - 1)
                j == num \div last
                r == num % last
                a == points[j + 1]
                b == points[IF j + 2 <= m THEN j + 2 ELSE m]
            IN  <<a[1] + RoundDiv((b[1] - a[1]) * r, last),
                  a[2] + RoundDiv((b[2] - a[2]) * r, last)>>]

\* The step of calculate_boundaries' first loop for index i (1-based):
\* the segment from centerline[i] to its successor, wrapping.
Direction(cl, i) == Sub(cl[(i % Len(cl)) + 1], cl[i])

\* The perpendicular offset of half the width for segment i, for a segment of
\* that length.
Offset(cl, i, length) ==
    LET d == Direction(cl, i)
    IN  <<RoundDiv((-d[2]) * (width \div 2), length),
          RoundDiv(d[1] * (width \div 2), length)>>

\* One round of the first loop: <<what it appends to inner, what it appends
\* to outer>>, or <<>> where it continues past a segment of zero length.
Appended(cl, i) ==
    Bind(Norm(Direction(cl, i)),
         LAMBDA length :
            IF length = 0 THEN <<>>
            ELSE Bind(Offset(cl, i, length),
                      LAMBDA offset : <<Add(cl[i], offset), Sub(cl[i], offset)>>))

\* The first loop: the pairs appended, in order.
KeptSegments(cl) ==
    LET kept(pair) == pair # <<>>
    IN  SelectSeq([i \in 1..Len(cl) |-> Appended(cl, i)], kept)

\* What calculate_boundaries returns, or that it raised.
Raised == [ok |-> FALSE, inner |-> <<>>, outer |-> <<>>]

Returned(inner, outer) == [ok |-> TRUE, inner |-> inner, outer |-> outer]

\* calculate_boundaries of AIRacing.py: inner and outer, both closed.  With no
\* segment kept, inner[0] raises IndexError.
calculate_boundaries(cl) ==
    Bind(KeptSegments(cl),
         LAMBDA kept :
            IF kept = <<>> THEN Raised
            ELSE Returned(Append([n \in 1..Len(kept) |-> kept[n][1]], kept[1][1]),
                          Append([n \in 1..Len(kept) |-> kept[n][2]], kept[1][2])))

\* (p - midpoint) * scale, with scale = (w / 2) / distance, or 0.5 when the
\* distance is 0.
Rescale(v, distance, w) ==
    IF distance # 0
    THEN <<RoundDiv(v[1] * (w \div 2), distance), RoundDiv(v[2] * (w \div 2), distance)>>
    ELSE <<RoundDiv(v[1], 2), RoundDiv(v[2], 2)>>

\* One round of the overlap-repair loop of the boundary test's
\* calculate_boundaries: <<adjusted inner point, adjusted outer point>>.
repair_pair(p_inner, p_outer, w) ==
    LET sum == Add(p_inner, p_outer)
        midpoint == <<RoundDiv(sum[1], 2), RoundDiv(sum[2], 2)>>
    IN  Bind(Norm(Sub(p_inner, p_outer)),
             LAMBDA distance :
                IF distance < w
                THEN <<Add(midpoint, Rescale(Sub(p_inner, midpoint), distance, w)),
                       Add(midpoint, Rescale(Sub(p_outer, midpoint), distance, w))>>
                ELSE <<p_inner, p_outer>>)

\* The whole repair loop over two boundaries of equal length:
\* <<adjusted_inner, adjusted_outer>>.
repair(inner, outer, w) ==
    Bind(SubSeq([i \in 1..Len(inner) |-> repair_pair(inner[i], outer[i], w)], 1, Len(inner)),
         LAMBDA pairs :
            <<SubSeq([i \in 1..Len(pairs) |-> pairs[i][1]], 1, Len(pairs)),
              SubSeq([i \in 1..Len(pairs) |-> pairs[i][2]], 1, Len(pairs))>>)

\* calculate_boundaries of boundary test.py: offsets, repair, then each
\* boundary smoothed again.
calculate_boundaries_test(cl) ==
    Bind(calculate_boundaries(cl),
         LAMBDA raw :
            IF ~raw.ok THEN Raised
            ELSE Bind(repair(raw.inner, raw.outer, width),
                      LAMBDA adjusted :
                         IF ~spline_fits(adjusted[1]) THEN Raised
                         ELSE Returned(spline_smooth(adjusted[1]),
                                       spline_smooth(adjusted[2]))))

Reverse(s) == [i \in 1..Len(s) |-> s[Len(s) + 1 - i]]

\* pygame.mask.from_surface of the surface the polygon was drawn on: the mask
\* is kept as the polygon it rasterises.
MaskOf(polygon) == [polygon |-> polygon]

trackVars ==
    <<centerline, inner_boundary, outer_boundary, finalized, track_polygon, track_mask>>

\* Track.finalize() on the current track.  An exception leaves what was
\* assigned before it: nothing when the centerline's fit raises, the smoothed
\* and closed centerline when calculate_boundaries raises.
finalize ==
    IF Len(centerline) > 2
    THEN IF ~spline_fits(centerline)
         THEN /\ exc' = "TypeError"
              /\ UNCHANGED trackVars
         ELSE \E smooth \in {spline_smooth(centerline)} :
              \E closed \in {Append(smooth, smooth[1])} :
              \E bounds \in {IF variant = "main" THEN calculate_boundaries(closed)
                              ELSE calculate_boundaries_test(closed)} :
                  /\ centerline' = closed
                  /\ IF ~bounds.ok
                     THEN /\ exc' = "IndexError"
                          /\ UNCHANGED <<inner_boundary, outer_boundary, finalized,
                                         track_polygon, track_mask>>
                     ELSE /\ exc' = "none"
                          /\ inner_boundary' = bounds.inner
                          /\ outer_boundary' = bounds.outer
                          /\ IF variant = "main"
                             THEN /\ track_polygon' = bounds.outer \o Reverse(bounds.inner)
                                  /\ track_mask' =
                                        MaskOf(bounds.outer \o Reverse(bounds.inner))
                             ELSE UNCHANGED <<track_polygon, track_mask>>
                          /\ finalized' = TRUE
    ELSE /\ exc' = "none"
         /\ UNCHANGED trackVars

\* What a Track call leaves in op: its name, who made it, and what it saw.
Call(name, via) ==
    [name |-> name, via |-> via, was_finalized |-> finalized,
     len_before |-> Len(centerline)]

\* handle_events' "if not track.finalized" with the test dropped.
drawing_always == TRUE

\* handle_events' "if not track.finalized".
drawing_enabled == ~finalized

\* ------------------------------------------------------------ track actions

\* The longest centerline the drawing events may build.
MaxPoints == 4

\* The number of direct calls of Track methods made on a finalized track.
MaxDirect == 1

\* pygame.mouse.get_pos(): the pixels the pointer visits.
MousePoints == {<<Px(100), Px(100)>>, <<Px(200), Px(100)>>, <<Px(200), Px(200)>>}

Alive == running /\ exc = "none"

\* handle_events: a MOUSEBUTTONDOWN event with the pointer at p.
MouseDown(p) ==
    /\ Alive
    /\ finalized \/ Len(centerline) < MaxPoints
    /\ op' = Call("add_point", "handle_events")
    /\ IF drawing_enabled
       THEN /\ centerline' = add_point(centerline, p)
            /\ UNCHANGED <<inner_boundary, outer_boundary, finalized,
                           track_polygon, track_mask>>
       ELSE UNCHANGED trackVars
    /\ UNCHANGED <<variant, running, exc, ndirect>>

\* handle_events: a MOUSEMOTION event with the left button pressed.
MouseMotion(p) ==
    /\ Alive
    /\ finalized \/ Len(centerline) < MaxPoints
    /\ op' = Call("add_point", "handle_events")
    /\ IF drawing_enabled
       THEN /\ centerline' = add_point(centerline, p)
            /\ UNCHANGED <<inner_boundary, outer_boundary, finalized,
                           track_polygon, track_mask>>
       ELSE UNCHANGED trackVars
    /\ UNCHANGED <<variant, running, exc, ndirect>>

\* handle_events: a KEYDOWN event of the space key.
KeySpace ==
    /\ Alive
    /\ op' = Call("finalize", "handle_events")
    /\ IF drawing_enabled
       THEN finalize
       ELSE UNCHANGED <<trackVars, exc>>
    /\ UNCHANGED <<variant, running, ndirect>>

\* handle_events: a QUIT event: returns False, and main's loop ends.
Quit ==
    /\ Alive
    /\ running' = FALSE
    /\ op' = Call("none", "handle_events")
    /\ UNCHANGED <<trackVars, variant, exc, ndirect>>

\* Track.add_point(p) called directly, not through handle_events, on a
\* finalized track (before that, handle_events makes this very call).
DirectAddPoint(p) ==
    /\ Alive
    /\ finalized
    /\ ndirect < MaxDirect
    /\ ndirect' = ndirect + 1
    /\ op' = Call("add_point", "direct")
    /\ centerline' = add_point(centerline, p)
    /\ UNCHANGED <<inner_boundary, outer_boundary, finalized, track_polygon,
                   track_mask, variant, running, exc>>

\* Track.finalize() called directly, not through handle_events, on a
\* finalized track (before that, handle_events makes this very call).
DirectFinalize ==
    /\ Alive
    /\ finalized
    /\ ndirect < MaxDirect
    /\ ndirect' = ndirect + 1
    /\ op' = Call("finalize", "direct")
    /\ finalize
    /\ UNCHANGED <<variant, running>>

\* ------------------------------------------------------- steering policies

\* random.choice([-10, 10]) mutated to a choice that may keep straight.
simple_logic_zero(s) ==
    IF s[3] < 50 THEN {Deg(-10), 0, Deg(10)}
    ELSE IF s[1] < 50 THEN {Deg(5)}
    ELSE IF s[5] < 50 THEN {Deg(-5)}
    ELSE {0}

\* simple_logic(sensors): the set of values the call can return.  Python's
\* sensors[i] is s[i + 1] here.
simple_logic(s) ==
    IF s[3] < 50 THEN {Deg(-10), Deg(10)}
    ELSE IF s[1] < 50 THEN {Deg(5)}
    ELSE IF s[5] < 50 THEN {Deg(-5)}
    ELSE {0}

\* advanced_logic(sensors): the value returned.
advanced_logic(s) ==
    LET left_score == s[1] + s[2]
        right_score == s[4] + s[5]
        center_steering == right_score - left_score   \* (...) * 0.02 degree
    IN  IF s[3] < 30
        THEN (IF left_score > right_score THEN Deg(-20) ELSE Deg(20))
        ELSE IF s[1] < 20 \/ s[5] < 20
        THEN (IF s[1] < s[5] THEN Deg(-15) ELSE Deg(15))
        ELSE center_steering

\* ---------------------------------------------------------------------- Car

\* WIDTH, HEIGHT: the canvas, in pixels.
WIDTH == 1080

HEIGHT == 1080

\* Resolution of the sine table: sines count 1/TrigUnit.
TrigUnit == 10 * 1000

\* np.sin at whole degrees 0..90, times TrigUnit.
SinTable ==
    <<0, 175, 349, 523, 698, 872, 1045, 1219, 1392, 1564,
      1736, 1908, 2079, 2250, 2419, 2588, 2756, 2924, 3090, 3256,
      3420, 3584, 3746, 3907, 4067, 4226, 4384, 4540, 4695, 4848,
      5000, 5150, 5299, 5446, 5592, 5736, 5878, 6018, 6157, 6293,
      6428, 6561, 6691, 6820, 6947, 7071, 7193, 7314, 7431, 7547,
      7660, 7771, 7880, 7986, 8090, 8192, 8290, 8387, 8480, 8572,
      8660, 8746, 8829, 8910, 8988, 9063, 9135, 9205, 9272, 9336,
      9397, 9455, 9511, 9563, 9613, 9659, 9703, 9744, 9781, 9816,
      9848, 9877, 9903, 9925, 9945, 9962, 9976, 9986, 9994, 9998,
      10000>>

\* The sine of an angle a in 0..Deg(90): the table, interpolated linearly
\* between whole degrees.
SinQuadrant(a) ==
    LET d == a \div SteerDiv
        r == a % SteerDiv
    IN  IF r = 0 THEN SinTable[d + 1]
        ELSE (SinTable[d + 1] * (SteerDiv - r) + SinTable[d + 2] * r) \div SteerDiv

\* np.sin(np.radians(angle)), np.cos(np.radians(angle)), times TrigUnit, for
\* an angle in 1/SteerDiv degree.
Sin(a) ==
    LET t == a % Deg(360)
    IN  IF t <= Deg(90) THEN SinQuadrant(t)
        ELSE IF t <= Deg(180) THEN SinQuadrant(Deg(180) - t)
        ELSE IF t <= Deg(270) THEN -SinQuadrant(t - Deg(180))
        ELSE -SinQuadrant(Deg(360) - t)

Cos(a) == Sin(a + Deg(90))

\* trig * k as a length: np.cos(...) * dist, np.sin(...) * self.speed.
Times(trig, k) == RoundDiv(trig * k * Unit, TrigUnit)

\* Python's int(v) of a coordinate: truncation toward zero, in pixels.
int(v) == IF v >= 0 THEN v \div Unit ELSE -((-v) \div Unit)

\* The bitmap pygame rasterises for a rectangular ring: a pixel is set when
\* it is on the canvas, inside the outer rectangle and outside the hole
\* (rectangles are <<left, top, right, bottom>> in pixels, right and bottom
\* excluded).
InRect(r, px, py) == r[1] <= px /\ px < r[3] /\ r[2] <= py /\ py < r[4]

\* track_mask.get_at((px, py)) != 0, for a pixel of the canvas.
get_at(mask, px, py) == InRect(mask.outer, px, py) /\ ~InRect(mask.hole, px, py)

\* Car.is_inside_track(x, y).  The None returned on a track that is not
\* finalized is falsy at both call sites, and is FALSE here.
is_inside_track(x, y) ==
    IF finalized /\ track_mask # NoMask
    THEN IF 0 <= int(x) /\ int(x) < WIDTH /\ 0 <= int(y) /\ int(y) < HEIGHT
         THEN get_at(track_mask, int(x), int(y))
         ELSE FALSE
    ELSE FALSE

\* sensor_angles, in degrees.
sensor_angles == <<-45, -20, 0, 20, 45>>

\* The first dist past the last one sense() tries: range(1, 200) stops at 199.
sensor_range == 200

\* The point of the ray at ray_angle from (x, y) at distance dist.
RayPoint(x, y, ray_angle, dist) ==
    <<x + Times(Cos(ray_angle), dist), y - Times(Sin(ray_angle), dist)>>

\* The inner loop of sense(), "for dist in range(1, 200)" with its break: the
\* first dist whose ray point is not inside the track, or 0 when the loop ends
\* without a break.  c and s are the cosine and sine of the ray's angle.
FirstExit(x, y, c, s) ==
    LET exits == {dist \in 1..(sensor_range - 1) :
                     ~is_inside_track(x + Times(c, dist), y - Times(s, dist))}
    IN  IF exits = {} THEN 0
        ELSE CHOOSE dist \in exits : \A e \in exits : dist <= e

\* Car.sense(): the new sensors.  A ray that never leaves the track within
\* range keeps the reading it had.
sense(c) ==
    [i \in 1..5 |->
        LET ray_angle == c.angle + Deg(sensor_angles[i])
            dist == FirstExit(c.x, c.y, Cos(ray_angle), Sin(ray_angle))
        IN  IF dist # 0 THEN dist ELSE c.sensors[i]]

\* Car.move(): the car after one step at its speed and angle.
move(c) ==
    [c EXCEPT !.x = c.x + Times(Cos(c.angle), c.speed),
              !.y = c.y - Times(Sin(c.angle), c.speed)]

\* Car.reset() mutated to leave the angle as it is.
reset_keeps_angle(c) ==
    [c EXCEPT !.x = c.start_x, !.y = c.start_y, !.speed = 2, !.collided = FALSE]

\* Car.reset() mutated to leave the position as it is.
reset_keeps_position(c) ==
    [c EXCEPT !.angle = 0, !.speed = 2, !.collided = FALSE]

\* Car.reset().
reset(c) ==
    [c EXCEPT !.x = c.start_x, !.y = c.start_y, !.angle = 0, !.speed = 2,
              !.collided = FALSE]

\* The collision test of update(): off the track, or off the canvas.
Collision(c) ==
    \/ ~is_inside_track(c.x, c.y)
    \/ ~(0 <= c.x /\ c.x < Px(WIDTH) /\ 0 <= c.y /\ c.y < Px(HEIGHT))

\* self.ai_model(self.sensors): the values the policy can return.
Steer(c) ==
    IF c.ai_model = "simple_logic" THEN simple_logic(c.sensors)
    ELSE {advanced_logic(c.sensors)}

\* Car.update() down to self.sense(): the car with its sensors refreshed.
Sensed(c) == [c EXCEPT !.sensors = sense(c)]

\* Car.update() from the policy's answer to self.move(): the car turned and
\* moved.
Moved(sensed, turn_angle) == move([sensed EXCEPT !.angle = sensed.angle + turn_angle])

\* Car.update()'s collision check on the moved car, and the reset it calls.
Checked(moved) ==
    IF Collision(moved) THEN reset([moved EXCEPT !.collided = TRUE]) ELSE moved

\* Car.__init__(x, y, color, ai_model, track).
Car(x, y, ai) ==
    [start_x |-> x, start_y |-> y, x |-> x, y |-> y, angle |-> 0, speed |-> 2,
     ai_model |-> ai, sensors |-> <<200, 200, 200, 200, 200>>, collided |-> FALSE]

\* ------------------------------------------------------ policy specification

\* How far around each threshold the sampled readings spread.
Spread == 0

\* Readings for rays 0, 2 and 4: the ends of the range and both sides of every
\* threshold the policies test (20, 30, 50).
EdgeReadings ==
    {1, 200} \cup UNION {{t - 1 - k, t + k} : t \in {20, 30, 50}, k \in 0..Spread}

\* Readings for rays 1 and 3, which only enter the scores.
ScoreReadings == {1, 100, 200} \cup {100 + k : k \in 0..Spread}

PolicyInputs ==
    {<<a, b, c, d, e>> : a \in EdgeReadings, b \in ScoreReadings,
                         c \in EdgeReadings, d \in ScoreReadings,
                         e \in EdgeReadings}

vars ==
    <<variant, centerline, inner_boundary, outer_boundary, finalized, track_polygon,
      track_mask, running, exc, op, ndirect, cars, turn, frame, probe,
      raw_inner, raw_outer, adjusted_inner, adjusted_outer, ai_model, ai_input, ai_output>>

policyVars == <<ai_model, ai_input, ai_output>>

trackSpecVars ==
    <<variant, centerline, inner_boundary, outer_boundary, finalized, track_polygon,
      track_mask, running, exc, op, ndirect>>

carVars == <<cars, turn, frame, probe>>

repairVars == <<raw_inner, raw_outer, adjusted_inner, adjusted_outer>>

\* Outside calculate_boundaries its locals do not exist.
NoRepair ==
    /\ raw_inner = <<>>
    /\ raw_outer = <<>>
    /\ adjusted_inner = <<>>
    /\ adjusted_outer = <<>>

NoProbe == [car |-> 0, pose |-> <<0, 0, 0>>, moved |-> <<0, 0>>, hit |-> FALSE]

\* main() before the track is finalized: no cars.
NoCars ==
    /\ cars = <<>>
    /\ turn = 1
    /\ frame = 0
    /\ probe = NoProbe

\* Track.__init__: an empty track, not finalized.
NewTrack ==
    /\ centerline = <<>>
    /\ inner_boundary = <<>>
    /\ outer_boundary = <<>>
    /\ finalized = FALSE
    /\ track_polygon = NoPolygon
    /\ track_mask = NoMask

NoCall ==
    [name |-> "none", via |-> "none", was_finalized |-> FALSE, len_before |-> 0]

NoPolicy ==
    /\ ai_model = "none"
    /\ ai_input = <<200, 200, 200, 200, 200>>
    /\ ai_output = 0

InitPolicy ==
    /\ ai_model = "none"
    /\ ai_input \in PolicyInputs
    /\ ai_output = 0
    /\ variant = "main"
    /\ NewTrack
    /\ running = TRUE
    /\ exc = "none"
    /\ op = NoCall
    /\ ndirect = 0
    /\ NoCars
    /\ NoRepair

CallSimple ==
    /\ ai_model = "none"
    /\ ai_model' = "simple"
    /\ ai_output' \in simple_logic(ai_input)
    /\ UNCHANGED <<ai_input, trackSpecVars, carVars, repairVars>>

CallAdvanced ==
    /\ ai_model = "none"
    /\ ai_model' = "advanced"
    /\ ai_output' = advanced_logic(ai_input)
    /\ UNCHANGED <<ai_input, trackSpecVars, carVars, repairVars>>

NextPolicy == CallSimple \/ CallAdvanced

SpecPolicy == InitPolicy /\ [][NextPolicy]_vars

\* ------------------------------------------------------- track specification

\* main() of either program: a new Track, the loop running.
InitTrack ==
    /\ variant \in {"main", "boundary_test"}
    /\ NewTrack
    /\ running = TRUE
    /\ exc = "none"
    /\ op = NoCall
    /\ ndirect = 0
    /\ NoCars
    /\ NoRepair
    /\ NoPolicy

NextTrack ==
    \/ \E p \in MousePoints : MouseDown(p) /\ UNCHANGED <<policyVars, carVars, repairVars>>
    \/ \E p \in MousePoints : MouseMotion(p) /\ UNCHANGED <<policyVars, carVars, repairVars>>
    \/ KeySpace /\ UNCHANGED <<policyVars, carVars, repairVars>>
    \/ Quit /\ UNCHANGED <<policyVars, carVars, repairVars>>
    \/ \E p \in MousePoints : DirectAddPoint(p) /\ UNCHANGED <<policyVars, carVars, repairVars>>
    \/ DirectFinalize /\ UNCHANGED <<policyVars, carVars, repairVars>>

SpecTrack == InitTrack /\ [][NextTrack]_vars

\* --------------------------------------------------------- car specification

\* The number of frames of main's loop the cars are followed for.
MaxFrames == 6

\* Finalized tracks the cars are run on: rectangular rings 80 pixels wide,
\* given by the outer rectangle and the hole of the rasterised mask and by
\* centerline[0].  On "east" the start lies on a straight that runs north to
\* south in mid canvas; on "top" it lies 5 pixels below the canvas's top edge,
\* on "right" 5 pixels left of its right edge, so that the track's polygon
\* runs off the canvas.
Rings ==
    {[outer |-> <<140, 100, 540, 980>>, hole |-> <<220, 180, 460, 900>>,
      start |-> <<500, 300>>],
     [outer |-> <<100, -35, 980, 700>>, hole |-> <<180, 45, 900, 620>>,
      start |-> <<300, 5>>],
     [outer |-> <<300, 100, 1115, 900>>, hole |-> <<380, 180, 1035, 820>>,
      start |-> <<1075, 300>>]}

\* The closed rectangle <<left, top, right, bottom>> as a sequence of points
\* from its first corner.
Loop(r) ==
    <<<<Px(r[1]), Px(r[2])>>, <<Px(r[3]), Px(r[2])>>, <<Px(r[3]), Px(r[4])>>,
      <<Px(r[1]), Px(r[4])>>, <<Px(r[1]), Px(r[2])>>>>

\* main() once Track.finalize() has run on a ring: the track finalized, its
\* mask rasterised, no car yet.  Of the centerline the cars read only
\* centerline[0].
InitCar ==
    /\ \E r \in Rings :
          /\ centerline = <<<<Px(r.start[1]), Px(r.start[2])>>>>
                \o Loop(<<r.hole[1] - 40, r.hole[2] - 40, r.hole[3] + 40, r.hole[4] + 40>>)
                \o <<<<Px(r.start[1]), Px(r.start[2])>>>>
          /\ inner_boundary = Loop(r.hole)
          /\ outer_boundary = Loop(r.outer)
          /\ track_polygon = Loop(r.outer) \o Reverse(Loop(r.hole))
          /\ track_mask = [outer |-> r.outer, hole |-> r.hole]
    /\ variant = "main"
    /\ finalized = TRUE
    /\ running = TRUE
    /\ exc = "none"
    /\ op = NoCall
    /\ ndirect = 0
    /\ NoCars
    /\ NoRepair
    /\ NoPolicy

\* main: "if track.finalized and not cars": the three cars are created.
SpawnCars ==
    /\ finalized /\ cars = <<>>
    /\ LET start_pos == centerline[1]
       IN  cars' = <<Car(start_pos[1], start_pos[2], "simple_logic"),
                     Car(start_pos[1] + Px(10), start_pos[2] + Px(10), "advanced_logic"),
                     Car(start_pos[1] - Px(10), start_pos[2] - Px(10), "advanced_logic")>>
    /\ UNCHANGED <<turn, frame, probe>>

\* main: one round of "for car in cars: car.update()".
CarUpdate ==
    /\ cars # <<>>
    /\ frame < MaxFrames
    /\ LET c == cars[turn]
       IN  IF ~c.collided
           THEN LET sensed == Sensed(c)
                IN  \E t \in Steer(sensed) :
                      LET moved == Moved(sensed, t)
                      IN  /\ cars' = [cars EXCEPT ![turn] = Checked(moved)]
                          /\ probe' = [car |-> turn, pose |-> <<c.x, c.y, c.angle>>,
                                       moved |-> <<moved.x, moved.y>>,
                                       hit |-> Collision(moved)]
           ELSE /\ UNCHANGED cars
                /\ probe' = [NoProbe EXCEPT !.car = turn]
    /\ turn' = IF turn = Len(cars) THEN 1 ELSE turn + 1
    /\ frame' = IF turn = Len(cars) THEN frame + 1 ELSE frame

NextCar ==
    \/ SpawnCars /\ UNCHANGED <<trackSpecVars, policyVars, repairVars>>
    \/ CarUpdate /\ UNCHANGED <<trackSpecVars, policyVars, repairVars>>

SpecCar == InitCar /\ [][NextCar]_vars

\* ------------------------------------------------------ repair specification

\* The longest boundaries the repair loop is run on.
MaxPairs == 2

\* The inner-minus-outer vectors of the pairs the loop is given, in pixels:
\* the two points coinciding, 20, 40 and 60 pixels apart (below the width),
\* 80 apart (the width) and 100 apart (above it).
Gaps == {<<0, 0>>, <<0, 20>>, <<40, 0>>, <<36, 48>>, <<80, 0>>, <<60, 80>>}

\* The pair of points with that vector between them, around (200, 200).
PairOf(g) ==
    <<<<Px(200) + Px(g[1]) \div 2, Px(200) + Px(g[2]) \div 2>>,
      <<Px(200) - Px(g[1]) \div 2, Px(200) - Px(g[2]) \div 2>>>>

\* calculate_boundaries of boundary test.py as its repair loop starts: inner
\* and outer of one length, nothing adjusted yet.
InitRepair ==
    /\ \E n \in 1..MaxPairs : \E gs \in [1..n -> Gaps] :
          /\ raw_inner = [i \in 1..n |-> PairOf(gs[i])[1]]
          /\ raw_outer = [i \in 1..n |-> PairOf(gs[i])[2]]
    /\ adjusted_inner = <<>>
    /\ adjusted_outer = <<>>
    /\ variant = "boundary_test"
    /\ NewTrack
    /\ running = TRUE
    /\ exc = "none"
    /\ op = NoCall
    /\ ndirect = 0
    /\ NoCars
    /\ NoPolicy

\* One round of "for i in range(len(inner))" of the repair.
RepairStep ==
    /\ Len(adjusted_inner) < Len(raw_inner)
    /\ LET i == Len(adjusted_inner) + 1
           pair == repair_pair(raw_inner[i], raw_outer[i], width)
       IN  /\ adjusted_inner' = Append(adjusted_inner, pair[1])
           /\ adjusted_outer' = Append(adjusted_outer, pair[2])
    /\ UNCHANGED <<raw_inner, raw_outer, trackSpecVars, carVars, policyVars>>

NextRepair == RepairStep

SpecRepair == InitRepair /\ [][NextRepair]_vars

\* ------------------------------------------------------------------ claims

\* C1: whenever a tick detects a collision, the car's x, y, angle and speed
\* equal the stored start pose (start_x, start_y, 0, 2) and collided is false
\* when that update() returns; collided is false at every tick boundary.
C1_ResetOnCollision ==
    /\ \A i \in 1..Len(cars) : ~cars[i].collided
    /\ probe.hit =>
          LET c == cars[probe.car]
          IN  /\ c.x = c.start_x /\ c.y = c.start_y
              /\ c.angle = 0 /\ c.speed = 2
              /\ ~c.collided

\* C1 witness: a car that had driven away from its start and turned detected
\* a collision.
C1_Witness ==
    /\ probe.hit
    /\ probe.pose[1] # cars[probe.car].start_x
    /\ probe.pose[3] # 0

\* The reading the claim gives ray i for a car sensing from the pose
\* <<x, y, angle>>: the smallest d in 1..200 whose ray point is not inside the
\* track, and 200 when there is none.
Reading(pose, i) ==
    LET ray_angle == pose[3] + Deg(sensor_angles[i])
        exits == {d \in 1..sensor_range :
                    LET p == RayPoint(pose[1], pose[2], ray_angle, d)
                    IN  ~is_inside_track(p[1], p[2])}
    IN  IF exits = {} THEN sensor_range
        ELSE CHOOSE d \in exits : \A e \in exits : d <= e

\* C2: after every call of sense(), each sensors[i] is the smallest d in
\* [1, 200] whose ray point fails is_inside_track, and 200 when no such d
\* exists.
C2_SensorsAreFirstExit ==
    probe.car # 0 =>
        \A i \in 1..5 : cars[probe.car].sensors[i] = Reading(probe.pose, i)

Distinct(cl) == Cardinality({cl[i] : i \in 1..Len(cl)})

\* C4: with fewer than 3 distinct points on the centerline, finalize() is a
\* no-op: finalized stays false, the centerline and both boundaries are
\* unchanged, and no exception is raised.
C4_FewDistinctPointsNoOp ==
    [][(op'.name = "finalize" /\ ~finalized /\ Distinct(centerline) < 3)
          => (UNCHANGED trackVars /\ exc' = "none")]_vars

\* C5: on a centerline of at least 3 points finalize() completes, sets
\* finalized, and leaves inner_boundary and outer_boundary with num_points
\* points each.
C5_BoundariesHaveResampleCount ==
    (op.name = "finalize" /\ ~op.was_finalized /\ op.len_before >= 3) =>
        /\ exc = "none"
        /\ finalized
        /\ Len(inner_boundary) = num_points
        /\ Len(outer_boundary) = num_points

\* C6: for every index the repair has handled: a pair closer than the width
\* comes out exactly the width apart around the same midpoint, any other pair
\* comes out unchanged; so every pair comes out at least the width apart.
C6_RepairRestoresWidth ==
    \A i \in 1..Len(adjusted_inner) :
        LET before == Norm(Sub(raw_inner[i], raw_outer[i]))
            after == Norm(Sub(adjusted_inner[i], adjusted_outer[i]))
        IN  /\ before < width =>
                  /\ after = width
                  /\ Add(adjusted_inner[i], adjusted_outer[i]) = Add(raw_inner[i], raw_outer[i])
            /\ before >= width =>
                  /\ adjusted_inner[i] = raw_inner[i]
                  /\ adjusted_outer[i] = raw_outer[i]
            /\ after >= width

\* A point with real coordinates off the canvas.
OffCanvas(x, y) == x < 0 \/ x >= Px(WIDTH) \/ y < 0 \/ y >= Px(HEIGHT)

\* C7: is_inside_track(x, y) is false for every point off the canvas, for the
\* ray points of sense() as for the point of the collision check.
C7_OffCanvasIsOffTrack ==
    probe.car # 0 =>
        /\ OffCanvas(probe.moved[1], probe.moved[2])
              => ~is_inside_track(probe.moved[1], probe.moved[2])
        /\ \A i \in 1..5 : \A d \in 1..(sensor_range - 1) :
              LET p == RayPoint(probe.pose[1], probe.pose[2],
                                probe.pose[3] + Deg(sensor_angles[i]), d)
              IN  OffCanvas(p[1], p[2]) => ~is_inside_track(p[1], p[2])

\* C8: for every 5-tuple of readings, simple_logic returns -10 or +10 (never 0)
\* when sensors[2] < 50; otherwise +5 when sensors[0] < 50; otherwise -5 when
\* sensors[4] < 50; otherwise 0.
C8_SimplePriority ==
    ai_model = "simple" =>
        /\ ai_input[3] < 50 => ai_output \in {Deg(-10), Deg(10)}
        /\ (ai_input[3] >= 50 /\ ai_input[1] < 50) => ai_output = Deg(5)
        /\ (ai_input[3] >= 50 /\ ai_input[1] >= 50 /\ ai_input[5] < 50)
              => ai_output = Deg(-5)
        /\ (ai_input[3] >= 50 /\ ai_input[1] >= 50 /\ ai_input[5] >= 50)
              => ai_output = 0

\* C8 witness: an obstacle ahead and on both sides, answered by a 10-degree
\* turn: the centre ray wins over the side rays.
C8_Witness ==
    /\ ai_model = "simple"
    /\ ai_input[3] < 50 /\ ai_input[1] < 50 /\ ai_input[5] < 50
    /\ ai_output = Deg(-10)

Sign(n) == IF n > 0 THEN 1 ELSE IF n < 0 THEN -1 ELSE 0

\* C9: advanced_logic returns, with left = s[0]+s[1] and right = s[3]+s[4]:
\* when s[2] < 30 a 20-degree turn toward the larger score; else when s[0] < 20
\* or s[4] < 20 a 15-degree turn with the sign of s[4] - s[0]; else exactly
\* (right - left) * 0.02, which is 0 when the scores are equal.
C9_AdvancedTable ==
    ai_model = "advanced" =>
        LET left == ai_input[1] + ai_input[2]
            right == ai_input[4] + ai_input[5]
        IN  IF ai_input[3] < 30
            THEN /\ ai_output \in {Deg(-20), Deg(20)}
                 /\ left # right => Sign(ai_output) = Sign(right - left)
            ELSE IF ai_input[1] < 20 \/ ai_input[5] < 20
            THEN /\ ai_output \in {Deg(-15), Deg(15)}
                 /\ ai_input[1] # ai_input[5]
                       => Sign(ai_output) = Sign(ai_input[5] - ai_input[1])
            ELSE /\ ai_output = right - left
                 /\ left = right => ai_output = 0

\* C10: at the end of every update() each car is at a point that is inside
\* the track and on the canvas, or exactly at its start position.
C10_OnTrackOrAtStart ==
    \A i \in 1..Len(cars) :
        LET c == cars[i]
        IN  \/ is_inside_track(c.x, c.y) /\ ~OffCanvas(c.x, c.y)
            \/ c.x = c.start_x /\ c.y = c.start_y

\* C10 witness: a car whose start is off the track was reset to it, while
\* another car has driven away from its start.
C10_Witness ==
    /\ probe.hit
    /\ ~is_inside_track(cars[probe.car].start_x, cars[probe.car].start_y)
    /\ \E i \in 1..Len(cars) : cars[i].x # cars[i].start_x
====
